---- MODULE Spec2Model ----
(***************************************************************************)
(* The navigation and selection engine of file_selector/__main__.py: the   *)
(* scan of the directory tree (build_file_tree), the collapse filter       *)
(* (get_visible_indices), directory-aware selection (toggle_selection) and *)
(* the key handling of the event loop of main().                           *)
(*                                                                         *)
(* Paths are strings, as in the source; startswith, os.path.join and       *)
(* os.path.relpath are computed on the characters.  Indices are 0-based as *)
(* in the source: tree index i is the element tree[i + 1] of the sequence. *)
(***************************************************************************)
EXTENDS Integers, Sequences, FiniteSets, TLC

VARIABLES root, tree, selected, collapsed, current_index, number_buffer,
          key, next_key, pc

vars == <<root, tree, selected, collapsed, current_index, number_buffer,
          key, next_key, pc>>

(* Longest numeric buffer the model lets the user type. *)
MaxBufLen == 2

(* The digit keys the model lets the user type, of "0" to "9". *)
Digits == {"0", "1", "3"}

(* os.sep on the platforms curses runs on. *)
Sep == "/"

(* ---------------------------------------------------------------------- *)
(* String helpers: str.startswith, str comparison, int().                  *)
(* ---------------------------------------------------------------------- *)

CharAt(s, i) == SubSeq(s, i, i)

startswith(s, prefix) ==
    /\ Len(s) >= Len(prefix)
    /\ SubSeq(s, 1, Len(prefix)) = prefix

(* Code points of the characters that occur in the modelled names. *)
CodePoint ==
    [c \in {".", "0", "1", "2", "3", "4", "5", "6", "7", "8", "9", "_",
            "a", "b", "c", "d", "e", "f", "g", "h", "i", "l", "m", "n",
            "o", "p", "r", "s", "t", "u", "x", "y"} |->
        CASE c = "." -> 46
          [] c = "0" -> 48 [] c = "1" -> 49 [] c = "2" -> 50 [] c = "3" -> 51
          [] c = "4" -> 52 [] c = "5" -> 53 [] c = "6" -> 54 [] c = "7" -> 55
          [] c = "8" -> 56 [] c = "9" -> 57 [] c = "_" -> 95
          [] c = "a" -> 97 [] c = "b" -> 98 [] c = "c" -> 99 [] c = "d" -> 100
          [] c = "e" -> 101 [] c = "f" -> 102 [] c = "g" -> 103
          [] c = "h" -> 104 [] c = "i" -> 105 [] c = "l" -> 108
          [] c = "m" -> 109 [] c = "n" -> 110 [] c = "o" -> 111
          [] c = "p" -> 112
          [] c = "r" -> 114 [] c = "s" -> 115 [] c = "t" -> 116
          [] c = "u" -> 117 [] c = "x" -> 120 [] c = "y" -> 121]

(* a < b for Python strings: the first differing code point decides, a     *)
(* proper prefix is smaller.                                               *)
RECURSIVE StrLess(_, _)
StrLess(a, b) ==
    IF Len(b) = 0 THEN FALSE
    ELSE IF Len(a) = 0 THEN TRUE
    ELSE IF CharAt(a, 1) = CharAt(b, 1)
         THEN StrLess(SubSeq(a, 2, Len(a)), SubSeq(b, 2, Len(b)))
         ELSE CodePoint[CharAt(a, 1)] < CodePoint[CharAt(b, 1)]

(* sorted(names) for a set of distinct names. *)
RECURSIVE sorted(_)
sorted(S) ==
    IF S = {} THEN <<>>
    ELSE LET m == CHOOSE x \in S : \A y \in S \ {x} : StrLess(x, y)
         IN  <<m>> \o sorted(S \ {m})

(* int(s) for a non-empty string of decimal digits. *)
RECURSIVE int(_)
int(s) ==
    IF Len(s) = 0 THEN 0
    ELSE 10 * int(SubSeq(s, 1, Len(s) - 1)) + (CodePoint[CharAt(s, Len(s))] - 48)

Min(a, b) == IF a < b THEN a ELSE b
Max(a, b) == IF a > b THEN a ELSE b

(* ---------------------------------------------------------------------- *)
(* The filesystem under the working directory, and build_file_tree.        *)
(* A layout is the root (os.getcwd()) and, for every directory below and   *)
(* including it, the names os.listdir returns.                             *)
(* ---------------------------------------------------------------------- *)

ScenarioLayout ==
    [root |-> "/r",
     ls   |-> ("/r" :> {"a.py", "dir"} @@ "/r/dir" :> {"b.py", "c.py"})]

NestedLayout ==
    [root |-> "/r",
     ls   |-> ("/r" :> {"dir", "dir2"} @@ "/r/dir" :> {"sub"}
               @@ "/r/dir/sub" :> {"f.py"} @@ "/r/dir2" :> {})]

EmptyDirsLayout ==
    [root |-> "/",
     ls   |-> ("/" :> {"m", "x.py"} @@ "/m" :> {"n"} @@ "/m/n" :> {})]

EmptyLayout ==
    [root |-> "/r", ls |-> ("/r" :> {})]

Layouts == {ScenarioLayout, NestedLayout, EmptyDirsLayout, EmptyLayout}

(* os.path.join(a, b) for a relative, non-empty b. *)
join(a, b) ==
    IF a = "" \/ CharAt(a, Len(a)) = Sep THEN a \o b ELSE a \o Sep \o b

(* os.path.relpath(full_path, start) for a path strictly below start. *)
relpath(full_path, start) ==
    LET cut == IF CharAt(start, Len(start)) = Sep THEN Len(start) ELSE Len(start) + 1
    IN  SubSeq(full_path, cut + 1, Len(full_path))

isdir(f, full_path) == full_path \in DOMAIN f.ls

(* recurse(path, depth) of build_file_tree: the entries appended to result *)
(* by the call, in order.  entries is what is left of sorted(listdir).     *)
RECURSIVE recurse_entries(_, _, _, _)
recurse_entries(f, path, depth, entries) ==
    IF entries = <<>> THEN <<>>
    ELSE LET e         == Head(entries)
             full_path == join(path, e)
             rel_path  == relpath(full_path, f.root)
             is_dir    == isdir(f, full_path)
         IN  <<<<rel_path, depth, is_dir>>>>
             \o (IF is_dir
                 THEN recurse_entries(f, full_path, depth + 1,
                                      sorted(f.ls[full_path]))
                 ELSE <<>>)
             \o recurse_entries(f, path, depth, Tail(entries))

build_file_tree(f) == recurse_entries(f, f.root, 0, sorted(f.ls[f.root]))

(* ---------------------------------------------------------------------- *)
(* toggle_selection                                                        *)
(* ---------------------------------------------------------------------- *)

(* all_descendants_set with the separator forgotten in the prefix test. *)
all_descendants_set_no_sep(tr, rel_path, rt) ==
    LET base_path == join(rt, rel_path)
    IN  {tr[i][1] : i \in {j \in 1..Len(tr) :
            LET full_p == join(rt, tr[j][1])
            IN  full_p = base_path \/ startswith(full_p, base_path)}}

(* all_descendants_set without the directory itself. *)
all_descendants_set_strict(tr, rel_path, rt) ==
    LET base_path == join(rt, rel_path)
    IN  {tr[i][1] : i \in {j \in 1..Len(tr) :
            LET full_p == join(rt, tr[j][1])
            IN  startswith(full_p, base_path \o Sep)}}

(* set(all_descendants): the paths p of the tree with                      *)
(* full_p == base_path or full_p.startswith(base_path + os.sep).           *)
all_descendants_set(tr, rel_path, rt) ==
    LET base_path == join(rt, rel_path)
    IN  {tr[i][1] : i \in {j \in 1..Len(tr) :
            LET full_p == join(rt, tr[j][1])
            IN  full_p = base_path \/ startswith(full_p, base_path \o Sep)}}

(* toggle_directory deselecting as soon as some descendant is selected. *)
toggle_directory_any(sel, D) ==
    IF D \cap sel # {} THEN sel \ D ELSE sel \cup D

(* The directory branch: deselect all when all are selected, else select   *)
(* all.                                                                    *)
toggle_directory(sel, D) ==
    IF D \subseteq sel THEN sel \ D ELSE sel \cup D

(* toggle_file that never removes. *)
toggle_file_add_only(sel, rel_path) == sel \cup {rel_path}

(* The file branch: flip the membership of rel_path. *)
toggle_file(sel, rel_path) ==
    IF rel_path \in sel THEN sel \ {rel_path} ELSE sel \cup {rel_path}

(* The value of selected after toggle_selection(selected, tree, index, root). *)
toggle_selection(sel, tr, index, rt) ==
    LET rel_path == tr[index + 1][1]
        is_dir   == tr[index + 1][3]
    IN  IF is_dir
        THEN toggle_directory(sel, all_descendants_set(tr, rel_path, rt))
        ELSE toggle_file(sel, rel_path)

(* ---------------------------------------------------------------------- *)
(* get_visible_indices                                                     *)
(* ---------------------------------------------------------------------- *)

(* hidden with the separator forgotten: a name prefix hides too. *)
hidden_no_sep(p, col) ==
    \E c \in col : p # c /\ startswith(p, c)

(* hidden that takes the collapsed directory for one of its own entries. *)
hidden_with_self(p, col) ==
    \E c \in col : startswith(p \o Sep, c \o Sep)

(* The inner loop: p lies inside some collapsed directory. *)
hidden(p, col) ==
    \E c \in col : p # c /\ startswith(p, c \o Sep)

get_visible_indices(tr, col) ==
    SelectSeq([i \in 1..Len(tr) |-> i - 1],
              LAMBDA i : ~hidden(tr[i + 1][1], col))

(* ---------------------------------------------------------------------- *)
(* The event loop of main()                                                *)
(* ---------------------------------------------------------------------- *)

NoKey == "none"

UpKeys    == {"KEY_UP", "k"}
DownKeys  == {"KEY_DOWN", "j"}
OtherKeys == {"x", "-1"}
Keys == UpKeys \cup DownKeys \cup Digits \cup OtherKeys
        \cup {"g", "G", "q", "ENTER", ">", "<"}

(* The list the handlers of one iteration see: it was computed at the top   *)
(* of the iteration from the collapse state the iteration then keeps.       *)
visible_indices == get_visible_indices(tree, collapsed)

(* Top of the loop: an empty visible list resets the collapse state. *)
reset_collapsed(tr, col) ==
    IF get_visible_indices(tr, col) = <<>> THEN {} ELSE col

(* clamp_index without the lower clamp. *)
clamp_index_no_lower(ci, n) == IF ci >= n THEN n - 1 ELSE ci

(* Top of the loop: bring current_index into range. *)
clamp_index(ci, n) ==
    LET a == IF ci >= n THEN n - 1 ELSE ci
    IN  IF a < 0 THEN 0 ELSE a

(* step_of with a default of 0 for the empty buffer. *)
step_of_zero_default(buf) == IF buf # "" THEN int(buf) ELSE 0

(* step = int(number_buffer) if number_buffer else 1 *)
step_of(buf) == IF buf # "" THEN int(buf) ELSE 1

(* jump_to with the line number taken for the 0-based index. *)
jump_to_one_off(buf, n) == Min(Max(0, int(buf)), n - 1)

(* current_index = min(max(0, target), len(visible_indices) - 1) *)
jump_to(buf, n) == Min(Max(0, int(buf) - 1), n - 1)

(* The rest of an iteration after the handler left (sel, col, ci, buf),     *)
(* and the top of the next iteration up to getch: the state the next key    *)
(* finds.                                                                   *)
Continue(sel, col, ci, buf) ==
    LET col1 == reset_collapsed(tree, col)
    IN  /\ selected' = sel
        /\ collapsed' = col1
        /\ current_index' = clamp_index(ci, Len(get_visible_indices(tree, col1)))
        /\ number_buffer' = buf
        /\ pc' = "getch"
        /\ UNCHANGED <<root, tree>>

Init ==
    /\ \E f \in Layouts :
        /\ root = f.root
        /\ tree = build_file_tree(f)
    /\ selected = {}
    /\ collapsed = reset_collapsed(tree, {})
    /\ current_index = clamp_index(0, Len(get_visible_indices(tree, collapsed)))
    /\ number_buffer = ""
    /\ key = NoKey
    /\ next_key = NoKey
    /\ pc = "getch"

(* key in [curses.KEY_UP, ord("k")] *)
KeyUp ==
    /\ pc = "getch"
    /\ \E k \in UpKeys : key' = k
    /\ next_key' = NoKey
    /\ Continue(selected, collapsed,
                Max(current_index - step_of(number_buffer), 0), "")

(* key in [curses.KEY_DOWN, ord("j")] *)
KeyDown ==
    /\ pc = "getch"
    /\ \E k \in DownKeys : key' = k
    /\ next_key' = NoKey
    /\ Continue(selected, collapsed,
                Min(current_index + step_of(number_buffer),
                    Len(visible_indices) - 1), "")

(* key == ord("g") with a count typed: go to that line. *)
KeyGCount ==
    /\ pc = "getch"
    /\ number_buffer # ""
    /\ key' = "g"
    /\ next_key' = NoKey
    /\ Continue(selected, collapsed,
                jump_to(number_buffer, Len(visible_indices)), "")

(* key == ord("g") without a count: the handler blocks in the second getch. *)
KeyGWait ==
    /\ pc = "getch"
    /\ number_buffer = ""
    /\ key' = "g"
    /\ next_key' = NoKey
    /\ pc' = "await"
    /\ UNCHANGED <<root, tree, selected, collapsed, current_index, number_buffer>>

(* SecondKey that forgets the digit typed after g. *)
SecondKey_digit_lost ==
    /\ pc = "await"
    /\ \E nk \in Keys \ {"-1"} :
        /\ next_key' = nk
        /\ IF nk = "g"
           THEN Continue(selected, collapsed, 0, number_buffer)
           ELSE Continue(selected, collapsed, current_index, number_buffer)
    /\ UNCHANGED key

(* The blocking getch returns next_key and the g handler finishes. *)
SecondKey ==
    /\ pc = "await"
    /\ \E nk \in Keys \ {"-1"} :
        /\ next_key' = nk
        /\ IF nk = "g"
           THEN Continue(selected, collapsed, 0, number_buffer)
           ELSE IF nk \in Digits
                THEN Continue(selected, collapsed, current_index, nk)
                ELSE Continue(selected, collapsed, current_index, number_buffer)
    /\ UNCHANGED key

(* key == ord("G") *)
KeyShiftG ==
    /\ pc = "getch"
    /\ key' = "G"
    /\ next_key' = NoKey
    /\ Continue(selected, collapsed,
                IF number_buffer # ""
                THEN jump_to(number_buffer, Len(visible_indices))
                ELSE Len(visible_indices) - 1,
                "")

(* ord("0") <= key <= ord("9") *)
KeyDigit ==
    /\ pc = "getch"
    /\ Len(number_buffer) < MaxBufLen
    /\ \E d \in Digits :
        /\ key' = d
        /\ Continue(selected, collapsed, current_index, number_buffer \o d)
    /\ next_key' = NoKey

(* key == ord("q"): break *)
KeyQuit ==
    /\ pc = "getch"
    /\ key' = "q"
    /\ next_key' = NoKey
    /\ pc' = "done"
    /\ UNCHANGED <<root, tree, selected, collapsed, current_index, number_buffer>>

(* KeyEnter that drops the count typed so far. *)
KeyEnter_clears_buffer ==
    /\ pc = "getch"
    /\ key' = "ENTER"
    /\ next_key' = NoKey
    /\ Continue(IF visible_indices # <<>>
                THEN toggle_selection(selected, tree,
                                      visible_indices[current_index + 1], root)
                ELSE selected,
                collapsed, current_index, "")

(* key == 10 *)
KeyEnter ==
    /\ pc = "getch"
    /\ key' = "ENTER"
    /\ next_key' = NoKey
    /\ Continue(IF visible_indices # <<>>
                THEN toggle_selection(selected, tree,
                                      visible_indices[current_index + 1], root)
                ELSE selected,
                collapsed, current_index, number_buffer)

(* collapse_at without the is_dir test. *)
collapse_at_any(tr, col, vis, ci) ==
    IF vis # <<>>
    THEN LET rel_path == tr[vis[ci + 1] + 1][1]
         IN  IF rel_path \notin col THEN col \cup {rel_path} ELSE col
    ELSE col

(* collapsed after the handler of ">" *)
collapse_at(tr, col, vis, ci) ==
    IF vis # <<>>
    THEN LET rel_path == tr[vis[ci + 1] + 1][1]
             is_dir   == tr[vis[ci + 1] + 1][3]
         IN  IF is_dir /\ rel_path \notin col THEN col \cup {rel_path} ELSE col
    ELSE col

(* expand_at that also expands every collapsed directory below. *)
expand_at_recursive(tr, col, vis, ci) ==
    IF vis # <<>>
    THEN LET rel_path == tr[vis[ci + 1] + 1][1]
             is_dir   == tr[vis[ci + 1] + 1][3]
         IN  IF is_dir /\ rel_path \in col
             THEN {c \in col : c # rel_path /\ ~startswith(c, rel_path \o Sep)}
             ELSE col
    ELSE col

(* collapsed after the handler of "<" *)
expand_at(tr, col, vis, ci) ==
    IF vis # <<>>
    THEN LET rel_path == tr[vis[ci + 1] + 1][1]
             is_dir   == tr[vis[ci + 1] + 1][3]
         IN  IF is_dir /\ rel_path \in col THEN col \ {rel_path} ELSE col
    ELSE col

(* KeyCollapse that sends the cursor back to the first row. *)
KeyCollapse_cursor_reset ==
    /\ pc = "getch"
    /\ key' = ">"
    /\ next_key' = NoKey
    /\ Continue(selected,
                collapse_at(tree, collapsed, visible_indices, current_index),
                0, number_buffer)

(* key == ord(">") *)
KeyCollapse ==
    /\ pc = "getch"
    /\ key' = ">"
    /\ next_key' = NoKey
    /\ Continue(selected,
                collapse_at(tree, collapsed, visible_indices, current_index),
                current_index, number_buffer)

(* key == ord("<") *)
KeyExpand ==
    /\ pc = "getch"
    /\ key' = "<"
    /\ next_key' = NoKey
    /\ Continue(selected,
                expand_at(tree, collapsed, visible_indices, current_index),
                current_index, number_buffer)

(* KeyOther that drops the count typed so far. *)
KeyOther_clears_buffer ==
    /\ pc = "getch"
    /\ \E k \in OtherKeys : key' = k
    /\ next_key' = NoKey
    /\ Continue(selected, collapsed, current_index, "")

(* Any other key, and -1 when no key is waiting: no branch matches. *)
KeyOther ==
    /\ pc = "getch"
    /\ \E k \in OtherKeys : key' = k
    /\ next_key' = NoKey
    /\ Continue(selected, collapsed, current_index, number_buffer)

Next ==
    \/ KeyUp
    \/ KeyDown
    \/ KeyGCount
    \/ KeyGWait
    \/ SecondKey
    \/ KeyShiftG
    \/ KeyDigit
    \/ KeyQuit
    \/ KeyEnter
    \/ KeyCollapse
    \/ KeyExpand
    \/ KeyOther

Spec == Init /\ [][Next]_vars

TypeOK ==
    /\ \E f \in Layouts : root = f.root /\ tree = build_file_tree(f)
    /\ pc \in {"getch", "await", "done"}
    /\ key \in Keys \cup {NoKey}
    /\ next_key \in Keys \cup {NoKey}
    /\ Len(number_buffer) <= MaxBufLen

(* ---------------------------------------------------------------------- *)
(* The tree as a tree: ancestors read off the pre-order and the depths,    *)
(* independently of any string matching.                                   *)
(* ---------------------------------------------------------------------- *)

PathOf(i)  == tree[i + 1][1]
DepthOf(i) == tree[i + 1][2]
IsDirAt(i) == tree[i + 1][3]

TreeIndices == 0..(Len(tree) - 1)
Paths     == {PathOf(i) : i \in TreeIndices}
DirPaths  == {PathOf(i) : i \in {j \in TreeIndices : IsDirAt(j)}}
FilePaths == Paths \ DirPaths

(* Entry i lies strictly below entry a: a is a directory before i, deeper   *)
(* entries only lie between them.                                          *)
Below(i, a) ==
    /\ a < i
    /\ IsDirAt(a)
    /\ \A m \in (a + 1)..i : DepthOf(m) > DepthOf(a)

IndexOfPath(p) == CHOOSE i \in TreeIndices : PathOf(i) = p

(* The directory at a together with everything below it, as paths. *)
Subtree(a) == {PathOf(a)} \cup {PathOf(i) : i \in {j \in TreeIndices : Below(j, a)}}

(* The entry the cursor designates, when there is one. *)
HasTarget == visible_indices # <<>>
TargetIndex == visible_indices[current_index + 1]

(* The steps of the loop, told by the key they consume. *)
EnterStep == pc = "getch" /\ key' = "ENTER"

(* ---------------------------------------------------------------------- *)
(* C1                                                                      *)
(* ---------------------------------------------------------------------- *)

FileDescendants(a) == Subtree(a) \cap FilePaths

ScenarioState(sel, col, ci) ==
    /\ tree = <<<<"a.py", 0, FALSE>>, <<"dir", 0, TRUE>>,
                <<"dir/b.py", 1, FALSE>>, <<"dir/c.py", 1, FALSE>>>>
    /\ selected = sel
    /\ collapsed = col
    /\ current_index = ci
    /\ number_buffer = ""
    /\ pc = "getch"

(* The scenario for a selection sel said to follow j, Enter: each key of    *)
(* j, Enter, >, Enter leads from the state before it to the state after it. *)
ScenarioSteps(sel) ==
       /\ (ScenarioState({}, {}, 0) /\ key' = "j")
            => ScenarioState({}, {}, 1)'
       /\ (ScenarioState({}, {}, 1) /\ key' = "ENTER")
            => ScenarioState(sel, {}, 1)'
       /\ (ScenarioState(sel, {}, 1) /\ key' = ">")
            => /\ ScenarioState(sel, {"dir"}, 1)'
               /\ visible_indices' = <<0, 1>>
               /\ current_index' \in 0..(Len(visible_indices') - 1)
       /\ (ScenarioState(sel, {"dir"}, 1) /\ key' = "ENTER")
            => ScenarioState({}, {"dir"}, 1)'

C5_FileToggleFlips ==
    /\ [][(EnterStep /\ HasTarget /\ ~IsDirAt(TargetIndex))
            => /\ (PathOf(TargetIndex) \in selected') #
                  (PathOf(TargetIndex) \in selected)
               /\ selected' \ {PathOf(TargetIndex)} =
                  selected \ {PathOf(TargetIndex)}]_vars
    /\ []((HasTarget /\ ~IsDirAt(TargetIndex))
            => toggle_selection(
                 toggle_selection(selected, tree, TargetIndex, root),
                 tree, TargetIndex, root) = selected)

(* Enter has just deselected a file and left another path selected. *)
C5_Witness ==
    /\ key = "ENTER"
    /\ HasTarget
    /\ ~IsDirAt(TargetIndex)
    /\ PathOf(TargetIndex) \notin selected
    /\ selected # {}

(* ---------------------------------------------------------------------- *)
(* C6                                                                      *)
(* ---------------------------------------------------------------------- *)

(* The entries none of whose ancestors has its path in C. *)
Unhidden(C) ==
    {i \in TreeIndices : ~\E a \in TreeIndices : Below(i, a) /\ PathOf(a) \in C}

(* C6: for every set C of directory paths of the tree, get_visible_indices  *)
(* returns, in increasing order, exactly the indices of the entries that    *)
(* have no ancestor in C.                                                   *)
C6_VisibleIffNoCollapsedAncestor ==
    \A C \in SUBSET DirPaths :
        LET v == get_visible_indices(tree, C)
        IN  /\ \A k \in 1..(Len(v) - 1) : v[k] < v[k + 1]
            /\ {v[k] : k \in 1..Len(v)} = Unhidden(C)

(* dir is collapsed, and dir2 beside it is shown. *)
C6_Witness ==
    /\ tree = build_file_tree(NestedLayout)
    /\ collapsed = {"dir"}
    /\ visible_indices = <<0, 3>>
    /\ PathOf(3) = "dir2"

(* ---------------------------------------------------------------------- *)
(* C7                                                                      *)
(* ---------------------------------------------------------------------- *)

Shown(p) == \E k \in 1..Len(visible_indices) : PathOf(visible_indices[k]) = p

(* C7, as stated: every collapsed directory is in the visible list. *)
C7_CollapsedAlwaysShown == \A c \in collapsed : Shown(c)

(* C7, amended: a collapsed directory is in the visible list exactly when   *)
(* none of the directories above it is collapsed: collapsing a directory    *)
(* never hides its own row, collapsing a directory above it does.           *)
C7_CollapsedShownUnlessUnderCollapsed ==
    \A c \in collapsed :
        /\ c \in DirPaths
        /\ Shown(c) <=> ~\E a \in TreeIndices :
                            Below(IndexOfPath(c), a) /\ PathOf(a) \in collapsed

(* dir/sub was collapsed, then dir above it. *)
C7_Witness ==
    /\ tree = build_file_tree(NestedLayout)
    /\ collapsed = {"dir", "dir/sub"}
    /\ key = ">"
    /\ Shown("dir")
    /\ ~Shown("dir/sub")

(* ---------------------------------------------------------------------- *)
(* C8                                                                      *)
(* ---------------------------------------------------------------------- *)

(* C8: whenever a key is awaited, current_index is an index of the visible  *)
(* list of the current collapse state; with an empty tree, where no row is  *)
(* drawn and no entry is picked, it is 0.                                   *)
C8_CursorInRange ==
    IF visible_indices = <<>>
    THEN current_index = 0
    ELSE current_index \in 0..(Len(visible_indices) - 1)

(* A move down has put the cursor on the last row of a list that a         *)
(* collapse has shortened.                                                  *)
C8_Witness ==
    /\ key \in DownKeys
    /\ Len(visible_indices) < Len(tree)
    /\ current_index = Len(visible_indices) - 1

(* ---------------------------------------------------------------------- *)
(* C9                                                                      *)
(* ---------------------------------------------------------------------- *)

(* x brought into [0, n - 1]; 0 for the empty list. *)
Clamped(x, n) ==
    IF n = 0 \/ x < 0 THEN 0 ELSE IF x > n - 1 THEN n - 1 ELSE x

(* C9: with the number N in the buffer, g and G put the cursor on N - 1     *)
(* clamped into the visible list and clear the buffer; G with an empty      *)
(* buffer puts it on the last row.  Buffer "12" and 12 rows give index 11.  *)
C9_JumpToLine ==
    /\ [][/\ (pc = "getch" /\ key' \in {"g", "G"} /\ number_buffer # "")
               => /\ current_index' =
                       Clamped(int(number_buffer) - 1, Len(visible_indices))
                  /\ number_buffer' = ""
                  /\ pc' = "getch"
          /\ (pc = "getch" /\ key' = "G" /\ number_buffer = "")
               => /\ current_index' =
                       Clamped(Len(visible_indices) - 1, Len(visible_indices))
                  /\ number_buffer' = ""]_vars
    /\ [](jump_to("12", 12) = 11)

(* 3 g on a list of four rows. *)
C9_Witness ==
    /\ key = "g"
    /\ next_key = NoKey
    /\ pc = "getch"
    /\ number_buffer = ""
    /\ Len(visible_indices) = 4
    /\ current_index = 2

(* ---------------------------------------------------------------------- *)
(* C10                                                                     *)
(* ---------------------------------------------------------------------- *)

(* The count of a motion: the number in the buffer, 1 without one. *)
CountTyped == IF number_buffer = "" THEN 1 ELSE int(number_buffer)

(* C10: j and down move the cursor down by the count, at most to the last   *)
(* row; k and up move it up by the count, at most to row 0; the buffer is   *)
(* empty afterwards, selection and collapse state are as before.            *)
C10_MoveByCount ==
    [][/\ (pc = "getch" /\ key' \in DownKeys)
            => /\ current_index' =
                    Clamped(current_index + CountTyped, Len(visible_indices))
               /\ number_buffer' = ""
               /\ UNCHANGED <<selected, collapsed>>
       /\ (pc = "getch" /\ key' \in UpKeys)
            => /\ current_index' =
                    Clamped(current_index - CountTyped, Len(visible_indices))
               /\ number_buffer' = ""
               /\ UNCHANGED <<selected, collapsed>>]_vars

(* 3 j from row 0 of a list of four rows. *)
C10_Witness ==
    /\ key = "j"
    /\ number_buffer = ""
    /\ Len(visible_indices) = 4
    /\ current_index = 3
    /\ selected = {}

(* ---------------------------------------------------------------------- *)
(* C11                                                                     *)
(* ---------------------------------------------------------------------- *)

(* C11: g typed with an empty buffer makes the interpreter await a second   *)
(* key and changes nothing else; a second g puts the cursor on row 0,       *)
(* whatever row it was on; a digit as the second key becomes the buffer and *)
(* does not move the cursor; either way the interpreter awaits no second    *)
(* key afterwards.                                                          *)
C11_SecondKeyAfterG ==
    [][/\ (pc = "getch" /\ key' = "g" /\ number_buffer = "")
            => /\ pc' = "await"
               /\ UNCHANGED <<selected, collapsed, current_index, number_buffer>>
       /\ (pc = "await" /\ next_key' = "g")
            => /\ current_index' = 0
               /\ pc' = "getch"
               /\ UNCHANGED <<selected, collapsed, number_buffer>>
       /\ (pc = "await" /\ next_key' \in Digits)
            => /\ number_buffer' = next_key'
               /\ pc' = "getch"
               /\ UNCHANGED <<selected, collapsed, current_index>>]_vars

(* g, 3 typed with the cursor below row 0: the 3 is in the buffer, the      *)
(* cursor has not moved.                                                    *)
C11_Witness ==
    /\ key = "g"
    /\ next_key = "3"
    /\ pc = "getch"
    /\ number_buffer = "3"
    /\ current_index > 0

(* ---------------------------------------------------------------------- *)
(* C12                                                                     *)
(* ---------------------------------------------------------------------- *)

(* The poll of the non-blocking getch when no key is waiting. *)
NoInputPoll == KeyOther /\ key' = "-1"

(* The loop keeps running: while it polls with the non-blocking getch, a    *)
(* poll that finds no key does happen.  Keys are typed or not, as the user  *)
(* likes.                                                                   *)
FairSpec == Spec /\ WF_vars(NoInputPoll)

(* C12: once g was typed with an empty buffer, the interpreter leaves the   *)
(* awaiting state again, also when no further key arrives.                  *)
C12_AwaitIsBounded == (pc = "await") ~> (pc = "getch")

(* ---------------------------------------------------------------------- *)
(* C13                                                                     *)
(* ---------------------------------------------------------------------- *)

CommandKeys == UpKeys \cup DownKeys \cup {"G", "q", "ENTER", ">", "<"}

(* The step consumes the key k: either getch of the loop returns it. *)
KeyConsumed(k) ==
    \/ pc = "getch" /\ key' = k
    \/ pc = "await" /\ next_key' = k

(* What the command of key k does to the state, clamped moves and the      *)
(* no-ops on files and on collapsed or expanded directories included.      *)
CommandEffect(k) ==
    CASE k \in DownKeys ->
            current_index' =
                Clamped(current_index + CountTyped, Len(visible_indices))
      [] k \in UpKeys ->
            current_index' =
                Clamped(current_index - CountTyped, Len(visible_indices))
      [] k = "G" ->
            current_index' =
                Clamped(IF number_buffer # "" THEN int(number_buffer) - 1
                        ELSE Len(visible_indices) - 1,
                        Len(visible_indices))
      [] k = "q" -> pc' = "done"
      [] k = "ENTER" ->
            selected' = IF HasTarget
                        THEN toggle_selection(selected, tree, TargetIndex, root)
                        ELSE selected
      [] k = ">" ->
            collapsed' = collapse_at(tree, collapsed, visible_indices,
                                     current_index)
      [] k = "<" ->
            collapsed' = expand_at(tree, collapsed, visible_indices,
                                   current_index)

(* C13: whenever a key that maps to a command is consumed, also right       *)
(* after a g typed with an empty buffer, the command takes effect.          *)
C13_NoCommandDropped ==
    [][\A k \in CommandKeys : KeyConsumed(k) => CommandEffect(k)]_vars

(* ---------------------------------------------------------------------- *)
(* C14                                                                     *)
(* ---------------------------------------------------------------------- *)

(* C14: a key no branch recognizes, the -1 of an empty poll included,       *)
(* leaves the numeric buffer, the cursor, the selection and the collapsed   *)
(* set as they were, so the count typed so far still applies in full.       *)
C14_UnrecognizedKeyFrame ==
    [][(\/ pc = "getch" /\ key' \in OtherKeys
        \/ pc = "await" /\ next_key' \in OtherKeys)
         => /\ UNCHANGED <<number_buffer, current_index, selected, collapsed>>
            /\ step_of(number_buffer') = step_of(number_buffer)
            /\ pc' = "getch"]_vars

C14_Witness ==
    /\ pc = "getch" /\ key \in OtherKeys
    /\ number_buffer = "13"
    /\ current_index > 0
    /\ selected # {}
    /\ collapsed # {}

(* ---------------------------------------------------------------------- *)
(* C15                                                                     *)
(* ---------------------------------------------------------------------- *)

CollapseStep == pc = "getch" /\ key' = ">"
ExpandStep   == pc = "getch" /\ key' = "<"

(* C15: > adds the path at the cursor to the collapsed set only when the    *)
(* entry is a directory not collapsed yet, < removes it only when the entry *)
(* is a collapsed directory; in every other case the key changes nothing.   *)
(* So the collapsed set holds paths of directories of the tree only, no     *)
(* other key changes it, and neither key changes the selection.             *)
C15_CollapseExpandGuards ==
    /\ [](collapsed \subseteq DirPaths)
    /\ [][/\ CollapseStep
             => /\ collapsed' =
                     IF HasTarget /\ IsDirAt(TargetIndex)
                          /\ PathOf(TargetIndex) \notin collapsed
                     THEN collapsed \cup {PathOf(TargetIndex)}
                     ELSE collapsed
                /\ UNCHANGED <<selected, current_index, number_buffer>>
          /\ ExpandStep
             => /\ collapsed' =
                     IF HasTarget /\ IsDirAt(TargetIndex)
                          /\ PathOf(TargetIndex) \in collapsed
                     THEN collapsed \ {PathOf(TargetIndex)}
                     ELSE collapsed
                /\ UNCHANGED <<selected, current_index, number_buffer>>
          /\ collapsed' # collapsed => CollapseStep \/ ExpandStep]_vars

(* > has just collapsed a second directory while paths are selected. *)
C15_Witness ==
    /\ pc = "getch" /\ key = ">"
    /\ HasTarget
    /\ PathOf(TargetIndex) \in collapsed
    /\ Cardinality(collapsed) = 2
    /\ selected # {}

(* ---------------------------------------------------------------------- *)
(* C16                                                                     *)
(* ---------------------------------------------------------------------- *)

(* C16: quit is the one terminal transition of the loop: a step that        *)
(* consumes the key q ends the loop, the loop ends by no other step, and    *)
(* nothing changes once it has ended.                                       *)
C16_QuitUniqueTerminal ==
    [][/\ KeyConsumed("q") => pc' = "done"
       /\ (pc # "done" /\ pc' = "done") => (pc = "getch" /\ key' = "q")
       /\ pc # "done"]_vars

(* ---------------------------------------------------------------------- *)
(* Navigation over longer lists: the loop restricted to the keys that move  *)
(* the cursor, on trees too large for the full key set.  The selection and  *)
(* the collapsed set stay empty, so every entry of the tree is a row.       *)
(* ---------------------------------------------------------------------- *)

MaxRows == 6

FlatNames ==
    <<"a.py", "b.py", "c.py", "d.py", "f.py", "g.py", "m.py", "n.py", "p.py">>

(* A working directory with n files and no subdirectory. *)
FlatLayout(n) ==
    [root |-> "/r",
     ls   |-> ("/r" :> {FlatNames[i] : i \in 1..Min(n, Len(FlatNames))})]

(* The directory the test test_ignores_common_directories builds. *)
IgnoredDirsLayout ==
    [root |-> "/r",
     ls   |-> ("/r" :> {"main.py", "src", ".git", "node_modules", "__pycache__"}
               @@ "/r/src" :> {"app.py"}
               @@ "/r/.git" :> {"file.txt"}
               @@ "/r/node_modules" :> {"file.txt"}
               @@ "/r/__pycache__" :> {"file.txt"})]

NavLayouts == {FlatLayout(n) : n \in 1..MaxRows} \cup {IgnoredDirsLayout}

InitNav ==
    /\ \E f \in NavLayouts :
        /\ root = f.root
        /\ tree = build_file_tree(f)
    /\ selected = {}
    /\ collapsed = reset_collapsed(tree, {})
    /\ current_index = clamp_index(0, Len(get_visible_indices(tree, collapsed)))
    /\ number_buffer = ""
    /\ key = NoKey
    /\ next_key = NoKey
    /\ pc = "getch"

NextNav ==
    \/ KeyUp
    \/ KeyDown
    \/ KeyGCount
    \/ KeyGWait
    \/ SecondKey
    \/ KeyShiftG
    \/ KeyDigit
    \/ KeyQuit
    \/ KeyOther

SpecNav == InitNav /\ [][NextNav]_vars

(* ---------------------------------------------------------------------- *)
(* C17                                                                     *)
(* ---------------------------------------------------------------------- *)

(* start_line without the clamp at the end of the list. *)
start_line_of_no_end_clamp(ci, n, max_lines) ==
    LET middle == max_lines \div 2
    IN  Max(0, ci - middle)

(* start_line as the loop computes it from current_index, the number of    *)
(* visible rows and max_lines.                                             *)
start_line_of(ci, n, max_lines) ==
    LET middle == max_lines \div 2
        start_line == Max(0, ci - middle)
    IN  IF start_line + max_lines > n
        THEN Max(0, n - max_lines)
        ELSE start_line

(* C17: with at least one visible row and the cursor in range, for every    *)
(* height h of the listing area from 1 to the number of rows the offset     *)
(* lies in 0..max(0, rows - h) and the cursor row lies inside the window    *)
(* offset..offset + h - 1.                                                  *)
C17_ViewportBounds ==
    \A h \in 1..Len(visible_indices) :
        LET n == Len(visible_indices)
            startOffset == start_line_of(current_index, n, h)
        IN  /\ 0 <= startOffset
            /\ startOffset <= Max(0, n - h)
            /\ startOffset <= current_index
            /\ current_index <= startOffset + h - 1

(* The cursor is on the last of at least five rows and a window of three    *)
(* rows has been pulled back to end with the list; on the same list a       *)
(* cursor in the middle is centred and a cursor at the top starts at 0.     *)
C17_Witness ==
    /\ pc = "getch" /\ key = "G"
    /\ Len(visible_indices) >= 5
    /\ current_index = Len(visible_indices) - 1
    /\ start_line_of(current_index, Len(visible_indices), 3)
         = Len(visible_indices) - 3
    /\ start_line_of(2, Len(visible_indices), 3) = 1
    /\ start_line_of(0, Len(visible_indices), 3) = 0

(* ---------------------------------------------------------------------- *)
(* C18                                                                     *)
(* ---------------------------------------------------------------------- *)

(* The names the test expects build_file_tree to leave out. *)
IGNORED_DIRS == {".git", "node_modules", "__pycache__"}

(* os.path.basename *)
basename(p) ==
    LET seps == {k \in 1..Len(p) : CharAt(p, k) = Sep}
    IN  IF seps = {} THEN p
        ELSE SubSeq(p, (CHOOSE k \in seps : \A m \in seps : m <= k) + 1, Len(p))

(* C18: the tree holds no entry that is, or lies under, a directory with    *)
(* an ignored name, while the entries outside such directories (main.py    *)
(* and src in the test) are present.                                        *)
C18_IgnoredDirsExcluded ==
    /\ \A i \in TreeIndices : \A a \in TreeIndices :
            (a = i \/ Below(i, a))
                => ~(IsDirAt(a) /\ basename(PathOf(a)) \in IGNORED_DIRS)
    /\ tree = build_file_tree(IgnoredDirsLayout)
            => {"main.py", "src", "src/app.py"} \subseteq Paths

(* ---------------------------------------------------------------------- *)
(* C19                                                                     *)
(* ---------------------------------------------------------------------- *)

(* The rows up to and including the cursor row. *)
RowsThroughCursor == SubSeq(visible_indices, 1, current_index + 1)

(* C19: > and < at the cursor leave current_index as it is and the cursor   *)
(* on the same entry of the tree: the rows up to the cursor row stay, only  *)
(* rows after it are hidden or revealed, and the clamp at the top of the    *)
(* loop does not move the cursor.                                           *)
C19_CollapseExpandKeepCursor ==
    [][(CollapseStep \/ ExpandStep)
        => /\ current_index' = current_index
           /\ HasTarget' = HasTarget
           /\ HasTarget => /\ TargetIndex' = TargetIndex
                           /\ RowsThroughCursor' = RowsThroughCursor]_vars

(* > has just hidden the rows under a directory below the first row. *)
C19_Witness ==
    /\ pc = "getch" /\ key = ">"
    /\ HasTarget
    /\ current_index > 0
    /\ PathOf(TargetIndex) \in collapsed
    /\ Len(visible_indices) < Len(tree)

(* ---------------------------------------------------------------------- *)
(* C20                                                                     *)
(* ---------------------------------------------------------------------- *)

(* Entry i is a collapsed directory and some directory above it is          *)
(* collapsed too.                                                           *)
CollapsedUnderCollapsed(i) ==
    /\ PathOf(i) \in collapsed
    /\ \E a \in TreeIndices : Below(i, a) /\ PathOf(a) \in collapsed

(* Entry i is a collapsed directory below a and a is the only collapsed     *)
(* directory above it.                                                      *)
CollapsedOnlyUnder(i, a) ==
    /\ PathOf(i) \in collapsed
    /\ \A b \in TreeIndices :
            (Below(i, b) /\ PathOf(b) \in collapsed) <=> b = a

(* C20: the collapse state of nested directories is independent.  < takes   *)
(* at most the path at the cursor out of the collapsed set and > takes      *)
(* none out; a collapsed directory under a collapsed one has no row, so the *)
(* cursor cannot be on it; and when < expands the one collapsed directory   *)
(* above it, it has a row again, is still collapsed, and everything below   *)
(* it is still without a row.                                               *)
C20_NestedCollapseIndependent ==
    /\ [](\A i \in TreeIndices :
            CollapsedUnderCollapsed(i)
                => /\ ~Shown(PathOf(i))
                   /\ ~(HasTarget /\ TargetIndex = i))
    /\ [][/\ CollapseStep => collapsed \subseteq collapsed'
          /\ ExpandStep
               => /\ HasTarget => collapsed \ collapsed' \subseteq {PathOf(TargetIndex)}
                  /\ ~HasTarget => collapsed' = collapsed
                  /\ (HasTarget /\ PathOf(TargetIndex) \in collapsed)
                       => \A i \in TreeIndices :
                            CollapsedOnlyUnder(i, TargetIndex)
                                => /\ PathOf(i) \in collapsed'
                                   /\ Shown(PathOf(i))'
                                   /\ \A j \in TreeIndices :
                                        Below(j, i) => ~Shown(PathOf(j))']_vars

(* In the nested tree dir/sub was collapsed, then dir; < on dir has just    *)
(* brought dir/sub back, collapsed, with dir/sub/f.py still hidden.         *)
C20_Witness ==
    /\ tree = build_file_tree(NestedLayout)
    /\ pc = "getch" /\ key = "<"
    /\ current_index = 0
    /\ collapsed = {"dir/sub"}
    /\ visible_indices = <<0, 1, 3>>

(* ---------------------------------------------------------------------- *)
(* C21                                                                     *)
(* ---------------------------------------------------------------------- *)

(* The step consumes a key that takes the count: j, k, the arrows, G, and   *)
(* g when a count has been typed.                                           *)
CountStep ==
    /\ pc = "getch"
    /\ \/ key' \in UpKeys \cup DownKeys \cup {"G"}
       \/ key' = "g" /\ number_buffer # ""

(* The step consumes Enter, > or <. *)
PlainCommandStep == pc = "getch" /\ key' \in {"ENTER", ">", "<"}

(* C21, as stated: after j, k, G, g with a count, Enter, > or < the numeric *)
(* buffer is empty, so digits typed before Enter, > or < never count for a  *)
(* later motion.                                                            *)
C21_BufferEmptyAfterCommand ==
    [][(CountStep \/ PlainCommandStep) => number_buffer' = ""]_vars

(* C21, amended: the numeric buffer is empty after each command that takes  *)
(* a count (j, k, the arrows, G, g with a count).  Enter, > and < do not    *)
(* read the buffer and leave it as it is, so digits typed before them are   *)
(* still the count of the next j, k, g or G.  The buffer changes by no      *)
(* other step than these, a digit, and a digit typed right after g.         *)
C21_BufferResetByCountCommands ==
    [][/\ CountStep => number_buffer' = ""
       /\ PlainCommandStep
            => /\ number_buffer' = number_buffer
               /\ step_of(number_buffer') = step_of(number_buffer)
       /\ number_buffer' # number_buffer
            => \/ CountStep
               \/ pc = "getch" /\ key' \in Digits
               \/ pc = "await" /\ next_key' \in Digits]_vars

(* Enter has just toggled an entry with the count 3 typed before it still   *)
(* pending.                                                                 *)
C21_Witness ==
    /\ pc = "getch" /\ key = "ENTER"
    /\ number_buffer = "3"
    /\ selected # {}

====
